---- MODULE Spec2Model ----
(***************************************************************************)
(* Model of the legacy -> canonical migration engine of src/src/index.ts   *)
(* together with the control tables of src/sql/control_tables.sql.         *)
(*                                                                         *)
(* Two specifications share the identity-map operators:                    *)
(*   SpecMap  the identity-map API (mapPut, mapGet, resolveId, mapPutBoth, *)
(*            mapGetAny) called with arbitrary arguments;                  *)
(*   Spec     the orchestrator: main / runJob over the job registry, run   *)
(*            against a fixed source snapshot, one or more process         *)
(*            executions in a row against the same target store.           *)
(***************************************************************************)
EXTENDS Integers, Sequences, FiniteSets, TLC

VARIABLES
    map,          \* migration_map rows: [entity, legacy_id, new_id]
    nextId,       \* number of canonical ids minted so far by newId()
    api,          \* SpecMap: the last identity-map call and what it returned
    rc,           \* SpecMap: the latest resolve-then-commit results in a row
    proc,         \* number of the running process execution (1, 2, ...)
    calls,        \* SpecMap: identity-map calls made so far
    src,          \* the source snapshot (the tables that vary)
    dest,         \* destination tables: job key -> set of rows
    runs,         \* migration_runs rows, in id order (id = position)
    errors,       \* migration_errors rows, in id order
    pc,           \* where main / runJob stands
    configured,   \* SOURCE_MYSQL_URL and TARGET_POSTGRES_URL are both set
    exitCode,     \* the exit code of the process, once it has ended
    checkpoints,  \* migration_checkpoints rows
    mode,         \* ctx.mode
    tableFilter,  \* ctx.tableFilter
    stateByUf,    \* ctx.stateByUf
    jobIdx,       \* position of the for-loop of main in the sorted registry
    runId,        \* runId of the job being run
    lidos,        \* rows read so far by the job being run
    inseridos,    \* rows whose upsert returned true so far
    faults,       \* store failures injected so far
    tally,        \* history: per run, what happened to extraction and rows
    stable,       \* history: per job, its latest run was clean and the
                  \*          target has not changed since that run ended
    consec,       \* history: the current run follows such a run of its job
    atOpen,       \* history: the target when the current run was opened
    rerun,        \* history: the target after each of two runs in a row
    escaped       \* history: where the exception that ended main was raised

(***************************************************************************)
(* Bounds of the model.                                                    *)
(***************************************************************************)
MaxIds == 2
MaxCalls == 3
MaxExec == 2
MaxFaults == 1

(***************************************************************************)
(* JavaScript values read from source rows: null, a number or a string.    *)
(* A string is a sequence of one-character strings, so that String(v),     *)
(* trim() and toUpperCase() are computed, not assumed.                     *)
(***************************************************************************)
NULL == [t |-> "null", n |-> 0, s |-> <<>>]
Num(k) == [t |-> "num", n |-> k, s |-> <<>>]
Str(cs) == [t |-> "str", n |-> 0, s |-> cs]

\* the absent canonical id (a select that returns no row, `?? null`)
NoId == 0

DigitChars == <<"0", "1", "2", "3", "4", "5", "6", "7", "8", "9">>

RECURSIVE Digits(_)
Digits(k) ==
    IF k < 10 THEN <<DigitChars[k + 1]>>
    ELSE Digits(k \div 10) \o <<DigitChars[(k % 10) + 1]>>

\* String(v) of JavaScript
JsString(v) ==
    CASE v.t = "null" -> <<"n", "u", "l", "l">>
      [] v.t = "num" -> Digits(v.n)
      [] OTHER -> v.s

IsSpace(c) == c \in {" ", "\t", "\n"}

RECURSIVE TrimLeft(_)
TrimLeft(cs) ==
    IF cs # <<>> /\ IsSpace(Head(cs)) THEN TrimLeft(Tail(cs)) ELSE cs

RECURSIVE TrimRight(_)
TrimRight(cs) ==
    IF cs # <<>> /\ IsSpace(cs[Len(cs)])
    THEN TrimRight(SubSeq(cs, 1, Len(cs) - 1))
    ELSE cs

\* String.prototype.trim
Trim(cs) == TrimRight(TrimLeft(cs))

(***************************************************************************)
(* Identity map (migration_map).  Every operator takes the table contents  *)
(* m and returns what the query does to it.                                *)
(***************************************************************************)
MapRow(entity, legacy, id) ==
    [entity |-> entity, legacy_id |-> legacy, new_id |-> id]

\* unique (entity, new_id): no other legacy key of the entity holds the id
UniqueNewIdOk(m, entity, legacy, id) ==
    ~ \E r \in m : r.entity = entity /\ r.new_id = id /\ r.legacy_id # legacy

\* a mapPut that forgets the unique (entity, new_id) constraint
mapPutNoUnique(m, entity, legacyId, newId) ==
    LET l == JsString(legacyId) IN
    [ map |-> {r \in m : ~(r.entity = entity /\ r.legacy_id = l)}
                \cup {MapRow(entity, l, newId)},
      threw |-> FALSE ]

\* insert ... on conflict (entity, legacy_id) do update set new_id = excluded.new_id
\* The statement fails, and changes nothing, on a unique (entity, new_id) violation.
mapPut(m, entity, legacyId, newId) ==
    LET l == JsString(legacyId) IN
    IF UniqueNewIdOk(m, entity, l, newId)
    THEN [ map |-> {r \in m : ~(r.entity = entity /\ r.legacy_id = l)}
                     \cup {MapRow(entity, l, newId)},
           threw |-> FALSE ]
    ELSE [ map |-> m, threw |-> TRUE ]

\* select new_id from migration_map where entity=$1 and legacy_id=$2
mapGet(m, entity, legacyId) ==
    IF legacyId = NULL THEN NoId
    ELSE LET hits == {r \in m : r.entity = entity
                                /\ r.legacy_id = JsString(legacyId)} IN
         IF hits = {} THEN NoId ELSE (CHOOSE r \in hits : TRUE).new_id

\* a resolveId that mints a new id whether or not the key is mapped
resolveIdAlwaysMints(m, entity, legacyId, minted) ==
    [id |-> minted + 1, minted |-> minted + 1]

\* existing ?? newId(): `minted` counts the ids newId() has handed out
resolveId(m, entity, legacyId, minted) ==
    LET existing == mapGet(m, entity, legacyId) IN
    IF existing # NoId
    THEN [id |-> existing, minted |-> minted]
    ELSE [id |-> minted + 1, minted |-> minted + 1]

\* null / undefined -> null; otherwise String(v).trim(), "" -> null
normalizeLegacyId(v) ==
    IF v = NULL THEN NULL
    ELSE LET s == Trim(JsString(v)) IN
         IF s = <<>> THEN NULL ELSE Str(s)

mapPutBoth(m, entity, legacyInt, legacyUuid, newId) ==
    LET a == normalizeLegacyId(legacyInt)
        b == normalizeLegacyId(legacyUuid)
        first == IF a # NULL THEN mapPut(m, entity, a, newId)
                 ELSE [map |-> m, threw |-> FALSE]
    IN  IF first.threw THEN first
        ELSE IF b # NULL /\ b # a THEN mapPut(first.map, entity, b, newId)
        ELSE first

\* a mapGetAny that goes on after a hit and returns the last one
RECURSIVE mapGetAnyLastHit(_, _, _)
mapGetAnyLastHit(m, entity, candidates) ==
    IF candidates = <<>> THEN NoId
    ELSE LET rest == mapGetAnyLastHit(m, entity, Tail(candidates))
             v == normalizeLegacyId(Head(candidates))
         IN  IF rest # NoId THEN rest
             ELSE IF v = NULL THEN NoId ELSE mapGet(m, entity, v)

RECURSIVE mapGetAny(_, _, _)
mapGetAny(m, entity, candidates) ==
    IF candidates = <<>> THEN NoId
    ELSE LET v == normalizeLegacyId(Head(candidates))
             id == IF v = NULL THEN NoId ELSE mapGet(m, entity, v)
         IN  IF id # NoId THEN id
             ELSE mapGetAny(m, entity, Tail(candidates))

(***************************************************************************)
(* The job registry (const jobs) and main's sort by level.                 *)
(***************************************************************************)
Job(key, level, sourceTable, pk) ==
    [key |-> key, level |-> level, sourceTable |-> sourceTable, pk |-> pk]

jobs ==
    << Job("state", 1, "tb_estados", "id"),
       Job("gender", 1, "tb_sexo", "id"),
       Job("civil_status", 1, "tb_estado_civil", "id"),
       Job("education_level", 1, "tb_escolaridade", "id"),
       Job("course", 1, "tb_confcurso", "co_seq_confcurso"),
       Job("educational_institution", 1, "tb_confinstituicao",
           "co_seq_confinstituicao"),
       Job("semester", 1, "tb_semestre", "id"),
       Job("shift", 1, "tb_turno", "id"),
       Job("user", 1, "tb_usuario", "co_seq_usuario"),
       Job("company", 2, "tb_empresa", "co_seq_empresa"),
       Job("institutions", 2, "tb_instituicao", "co_seq_instituicao"),
       Job("student", 2, "tb_estudante", "id"),
       Job("company_supervisor", 3, "supervisor_empresas", "id"),
       Job("company_representative", 3, "representante_empresas", "id"),
       Job("institution_supervisor", 3, "supervisor_instituicaos", "id"),
       Job("institution_representative", 3, "representante_instituicaos", "id"),
       Job("internship_commitment_term", 4, "tb_termo", "co_seq_termo"),
       Job("signed_internship_commitment_term", 5, "termos", "id") >>

JobKeys == {jobs[i].key : i \in 1..Len(jobs)}

DimKeys ==
    {"gender", "civil_status", "education_level", "course",
     "educational_institution", "semester", "shift"}

\* insert j after the last element whose level is <= j.level (a stable sort)
RECURSIVE InsertByLevel(_, _)
InsertByLevel(sorted, j) ==
    IF sorted = <<>> THEN <<j>>
    ELSE IF sorted[Len(sorted)].level <= j.level THEN Append(sorted, j)
    ELSE Append(InsertByLevel(SubSeq(sorted, 1, Len(sorted) - 1), j),
                sorted[Len(sorted)])

RECURSIVE SortByLevel(_)
SortByLevel(js) ==
    IF js = <<>> THEN <<>>
    ELSE InsertByLevel(SortByLevel(SubSeq(js, 1, Len(js) - 1)), js[Len(js)])

RECURSIVE Reverse(_)
Reverse(js) == IF js = <<>> THEN <<>> ELSE Append(Reverse(Tail(js)), Head(js))

\* the comparator turned round: (a, b) => b.level - a.level
sortedJobsDescending == Reverse(SortByLevel(jobs))

\* jobs.sort((a, b) => a.level - b.level)
sortedJobs == SortByLevel(jobs)

levelOfKey(key) == jobs[CHOOSE i \in 1..Len(jobs) : jobs[i].key = key].level

(***************************************************************************)
(* Helpers of the upserts.                                                 *)
(***************************************************************************)
LowerChars == <<"a", "b", "c", "d", "e", "f", "g", "h", "i", "j", "k", "l", "m",
                "n", "o", "p", "q", "r", "s", "t", "u", "v", "w", "x", "y", "z">>
UpperChars == <<"A", "B", "C", "D", "E", "F", "G", "H", "I", "J", "K", "L", "M",
                "N", "O", "P", "Q", "R", "S", "T", "U", "V", "W", "X", "Y", "Z">>

UpperChar(c) ==
    IF \E i \in 1..Len(LowerChars) : LowerChars[i] = c
    THEN UpperChars[CHOOSE i \in 1..Len(LowerChars) : LowerChars[i] = c]
    ELSE c

LowerChar(c) ==
    IF \E i \in 1..Len(UpperChars) : UpperChars[i] = c
    THEN LowerChars[CHOOSE i \in 1..Len(UpperChars) : UpperChars[i] = c]
    ELSE c

\* String.prototype.toUpperCase / toLowerCase
toUpperCase(cs) == [i \in 1..Len(cs) |-> UpperChar(cs[i])]
toLowerCase(cs) == [i \in 1..Len(cs) |-> LowerChar(cs[i])]

\* JavaScript truthiness of a row value
Truthy(v) == ~(v = NULL \/ v = Num(0) \/ v = Str(<<>>))

\* String(row.ds_uf || "").toUpperCase()
UfKey(v) == toUpperCase(JsString(IF Truthy(v) THEN v ELSE Str(<<>>)))

\* ctx.stateByUf.get(k) ?? null
stateByUfGet(byUf, k) == IF k \in DOMAIN byUf THEN byUf[k] ELSE NoId

\* sanitizeRequiredString(row.email ?? `${id}@legacy.local`).toLowerCase()
baseEmail(email, id) ==
    toLowerCase(Trim(IF email = NULL
                     THEN Digits(id) \o <<"@", "l", "e", "g", "a", "c", "y">>
                     ELSE JsString(email)))

\* insert ... on conflict (id) do update set <updated columns>
onConflictId(rows, new, updated) ==
    IF \E e \in rows : e.id = new.id
    THEN { IF e.id = new.id
           THEN [c \in DOMAIN e |-> IF c \in updated THEN new[c] ELSE e[c]]
           ELSE e : e \in rows }
    ELSE rows \cup {new}

\* insert into "user" ... on conflict (email) do update set name, password,
\* image, role: a row with the email keeps its id; a new email with the id of
\* another row violates the primary key
onConflictEmail(rows, new) ==
    IF \E e \in rows : e.email = new.email
    THEN [rows |-> rows, threw |-> FALSE]
    ELSE IF \E e \in rows : e.id = new.id
    THEN [rows |-> rows, threw |-> TRUE]
    ELSE [rows |-> rows \cup {new}, threw |-> FALSE]

(***************************************************************************)
(* What an upsert call did: res is "true" or "false" (its return value) or *)
(* "throw"; map, dest and minted are the target and the id counter after   *)
(* it; faulted tells that an injected store failure made it throw.         *)
(* The injected failure f is "none", "query" (a read of the target or the  *)
(* destination write fails: nothing is written) or "commit" (the first     *)
(* identity-map write after the destination write fails).                  *)
(***************************************************************************)
Out(res, msg, faulted, m, d, k) ==
    [res |-> res, msg |-> msg, faulted |-> faulted,
     map |-> m, dest |-> d, minted |-> k]

QueryFailed == "target query failed"
DuplicateKey == "duplicate key value violates unique constraint"
Skipped == "skipped: upsert returned false (missing FK or mapping)"

\* await target.query(insert into <table> ...); await mapPut / mapPutBoth; return true
\* written.rows is the table after the write, put the map after the commit
writeThenCommit(s, k, table, written, put, f) ==
    LET d2 == [s.dest EXCEPT ![table] = written.rows] IN
    IF written.threw THEN Out("throw", DuplicateKey, FALSE, s.map, s.dest, k)
    ELSE IF f = "commit" THEN Out("throw", QueryFailed, TRUE, s.map, d2, k)
    ELSE IF put.threw THEN Out("throw", DuplicateKey, FALSE, put.map, d2, k)
    ELSE Out("true", "", FALSE, put.map, d2, k)

Written(rows) == [rows |-> rows, threw |-> FALSE]

\* return false
returnFalse(s, k) == Out("false", "", FALSE, s.map, s.dest, k)

(***************************************************************************)
(* The upsert of every job.  row is the source row, s the record           *)
(* [map, dest, minted, stateByUf] the upsert reads, f the injected failure *)
(* ("none" or "commit" here; "query" is dealt with by upsert below).       *)
(* A destination row keeps the columns the engine decides: its id, the     *)
(* conflict key and the foreign keys.                                      *)
(***************************************************************************)
\* a state upsert whose insert is keyed on the acronym: a state that is
\* already there keeps its id
upsertStateOnAcronym(row, s, f) ==
    LET r == resolveId(s.map, "state", row.id, s.minted) IN
    writeThenCommit(s, r.minted, "state",
        Written(IF \E d \in s.dest["state"] : d.acronym = row.acronym
                THEN s.dest["state"]
                ELSE s.dest["state"] \cup {[id |-> r.id, acronym |-> row.acronym]}),
        mapPut(s.map, "state", row.id, r.id), f)

upsertState(row, s, f) ==
    LET r == resolveId(s.map, "state", row.id, s.minted) IN
    writeThenCommit(s, r.minted, "state",
        Written(onConflictId(s.dest["state"],
                             [id |-> r.id, acronym |-> row.acronym],
                             {"acronym"})),
        mapPut(s.map, "state", row.id, r.id), f)

dimUpsert(table, row, s, f) ==
    LET r == resolveId(s.map, table, row.id, s.minted) IN
    writeThenCommit(s, r.minted, table,
        Written(onConflictId(s.dest[table], [id |-> r.id], {})),
        mapPut(s.map, table, row.id, r.id), f)

upsertUser(row, s, f) ==
    LET r == resolveId(s.map, "user", row.co_seq_usuario, s.minted) IN
    writeThenCommit(s, r.minted, "user",
        onConflictEmail(s.dest["user"],
                        [id |-> r.id, email |-> baseEmail(row.email, r.id)]),
        mapPutBoth(s.map, "user", row.co_seq_usuario, row.id, r.id), f)

upsertCompany(row, s, f) ==
    LET r == resolveId(s.map, "company", row.co_seq_empresa, s.minted)
        userId == mapGet(s.map, "user", row.user_id)
        stateId == stateByUfGet(s.stateByUf, UfKey(row.ds_uf))
    IN  IF userId = NoId \/ stateId = NoId THEN returnFalse(s, r.minted)
        ELSE writeThenCommit(s, r.minted, "company",
                 Written(onConflictId(s.dest["company"],
                     [id |-> r.id, user_id |-> userId, state_id |-> stateId],
                     {"user_id"})),
                 mapPutBoth(s.map, "company", row.co_seq_empresa, row.id, r.id),
                 f)

upsertInstitutions(row, s, f) ==
    LET r == resolveId(s.map, "institutions", row.co_seq_instituicao, s.minted)
        userId == mapGet(s.map, "user", row.user_id)
        stateId == stateByUfGet(s.stateByUf, UfKey(row.ds_uf))
    IN  IF userId = NoId \/ stateId = NoId THEN returnFalse(s, r.minted)
        ELSE writeThenCommit(s, r.minted, "institutions",
                 Written(onConflictId(s.dest["institutions"],
                     [id |-> r.id, user_id |-> userId, state_id |-> stateId],
                     {"user_id"})),
                 mapPutBoth(s.map, "institutions", row.co_seq_instituicao,
                            row.id, r.id),
                 f)

\* a student upsert that looks the state up in the user namespace
upsertStudentStateFromUser(row, s, f) ==
    LET r == resolveId(s.map, "student", row.id, s.minted)
        userId == mapGet(s.map, "user", row.usuario_id)
        stateId == mapGet(s.map, "user", row.estado_id)
    IN  IF userId = NoId THEN returnFalse(s, r.minted)
        ELSE writeThenCommit(s, r.minted, "student",
                 Written(onConflictId(s.dest["student"],
                     [id |-> r.id, user_id |-> userId, state_id |-> stateId],
                     {})),
                 mapPut(s.map, "student", row.id, r.id), f)

\* the lookups of gender, civil status, state, education level, course,
\* institution, semester and shift fill nullable columns and decide nothing;
\* of these the row keeps state_id
upsertStudent(row, s, f) ==
    LET r == resolveId(s.map, "student", row.id, s.minted)
        userId == mapGet(s.map, "user", row.usuario_id)
        stateId == mapGet(s.map, "state", row.estado_id)
    IN  IF userId = NoId THEN returnFalse(s, r.minted)
        ELSE writeThenCommit(s, r.minted, "student",
                 Written(onConflictId(s.dest["student"],
                     [id |-> r.id, user_id |-> userId, state_id |-> stateId],
                     {})),
                 mapPut(s.map, "student", row.id, r.id), f)

upsertCompanySupervisor(row, s, f) ==
    LET r == resolveId(s.map, "company_supervisor", row.id, s.minted)
        companyId == mapGet(s.map, "company", row.empresa_id)
    IN  IF companyId = NoId THEN returnFalse(s, r.minted)
        ELSE writeThenCommit(s, r.minted, "company_supervisor",
                 Written(onConflictId(s.dest["company_supervisor"],
                     [id |-> r.id, company_id |-> companyId], {})),
                 mapPut(s.map, "company_supervisor", row.id, r.id), f)

upsertCompanyRepresentative(row, s, f) ==
    LET companyId == mapGet(s.map, "company", row.empresa_id)
        r == resolveId(s.map, "company_representative", row.id, s.minted)
    IN  IF companyId = NoId THEN returnFalse(s, s.minted)
        ELSE writeThenCommit(s, r.minted, "company_representative",
                 Written(onConflictId(s.dest["company_representative"],
                     [id |-> r.id, company_id |-> companyId], {})),
                 mapPut(s.map, "company_representative", row.id, r.id), f)

upsertInstitutionSupervisor(row, s, f) ==
    LET institutionId == mapGet(s.map, "institutions", row.instituicao_id)
        r == resolveId(s.map, "institution_supervisor", row.id, s.minted)
    IN  IF institutionId = NoId THEN returnFalse(s, s.minted)
        ELSE writeThenCommit(s, r.minted, "institution_supervisor",
                 Written(onConflictId(s.dest["institution_supervisor"],
                     [id |-> r.id, institution_id |-> institutionId], {})),
                 mapPut(s.map, "institution_supervisor", row.id, r.id), f)

upsertInstitutionRepresentative(row, s, f) ==
    LET institutionId == mapGet(s.map, "institutions", row.instituicao_id)
        r == resolveId(s.map, "institution_representative", row.id, s.minted)
    IN  IF institutionId = NoId THEN returnFalse(s, s.minted)
        ELSE writeThenCommit(s, r.minted, "institution_representative",
                 Written(onConflictId(s.dest["institution_representative"],
                     [id |-> r.id, institution_id |-> institutionId], {})),
                 mapPut(s.map, "institution_representative", row.id, r.id), f)

upsertTerm(row, s, f) ==
    LET r == resolveId(s.map, "internship_commitment_term", row.co_seq_termo,
                       s.minted)
        companyId == mapGetAny(s.map, "company", <<row.empresa_id>>)
        companySupervisorId ==
            mapGet(s.map, "company_supervisor", row.supervisor_empresa_id)
        companyRepresentativeId ==
            mapGet(s.map, "company_representative", row.representante_empresa_id)
        institutionId == mapGetAny(s.map, "institutions", <<row.instituicao_id>>)
        institutionSupervisorId ==
            mapGet(s.map, "institution_supervisor", row.supervisor_instituicao_id)
        institutionRepresentativeId ==
            mapGet(s.map, "institution_representative",
                   row.representante_instituicao_id)
        studentId == mapGet(s.map, "student", row.estudante_id)
    IN  IF \/ companyId = NoId
           \/ companySupervisorId = NoId
           \/ companyRepresentativeId = NoId
           \/ institutionId = NoId
           \/ institutionSupervisorId = NoId
           \/ institutionRepresentativeId = NoId
           \/ studentId = NoId
        THEN returnFalse(s, r.minted)
        ELSE writeThenCommit(s, r.minted, "internship_commitment_term",
                 Written(onConflictId(s.dest["internship_commitment_term"],
                     [id |-> r.id,
                      company_id |-> companyId,
                      company_supervisor_id |-> companySupervisorId,
                      company_representative_id |-> companyRepresentativeId,
                      institution_id |-> institutionId,
                      institution_supervisor_id |-> institutionSupervisorId,
                      institution_representative_id |->
                          institutionRepresentativeId,
                      student_id |-> studentId], {})),
                 mapPutBoth(s.map, "internship_commitment_term",
                            row.co_seq_termo, row.id, r.id),
                 f)

upsertSignedTerm(row, s, f) ==
    LET r == resolveId(s.map, "signed_internship_commitment_term", row.id,
                       s.minted)
        termId == mapGetAny(s.map, "internship_commitment_term",
                            <<row.id, row.termoId>>)
        companyId == mapGetAny(s.map, "company", <<row.empresaId, row.empresa_id>>)
        studentId == mapGet(s.map, "student", row.estudanteId)
    IN  IF termId = NoId \/ companyId = NoId \/ studentId = NoId
        THEN returnFalse(s, r.minted)
        ELSE writeThenCommit(s, r.minted, "signed_internship_commitment_term",
                 Written(onConflictId(
                     s.dest["signed_internship_commitment_term"],
                     [id |-> r.id,
                      internship_commitment_term_id |-> termId,
                      company_id |-> companyId,
                      student_id |-> studentId],
                     {"internship_commitment_term_id"})),
                 mapPut(s.map, "signed_internship_commitment_term", row.id,
                        r.id),
                 f)

\* job.upsert(row, ctx)
upsert(job, row, s, f) ==
    IF f = "query" THEN Out("throw", QueryFailed, TRUE, s.map, s.dest, s.minted)
    ELSE CASE job.key = "state" -> upsertState(row, s, f)
           [] job.key \in DimKeys -> dimUpsert(job.key, row, s, f)
           [] job.key = "user" -> upsertUser(row, s, f)
           [] job.key = "company" -> upsertCompany(row, s, f)
           [] job.key = "institutions" -> upsertInstitutions(row, s, f)
           [] job.key = "student" -> upsertStudent(row, s, f)
           [] job.key = "company_supervisor" -> upsertCompanySupervisor(row, s, f)
           [] job.key = "company_representative" ->
                  upsertCompanyRepresentative(row, s, f)
           [] job.key = "institution_supervisor" ->
                  upsertInstitutionSupervisor(row, s, f)
           [] job.key = "institution_representative" ->
                  upsertInstitutionRepresentative(row, s, f)
           [] job.key = "internship_commitment_term" -> upsertTerm(row, s, f)
           [] OTHER -> upsertSignedTerm(row, s, f)

(***************************************************************************)
(* Control tables: migration_runs and migration_errors.                    *)
(***************************************************************************)
NoMessage == "null"
SourceFailed == "source query failed"

\* a startRun that inserts the row twice
startRunTwice(rs, jobName, md) ==
    rs \o << [job_name |-> jobName, mode |-> md, status |-> "running",
              error_message |-> NoMessage],
            [job_name |-> jobName, mode |-> md, status |-> "running",
              error_message |-> NoMessage] >>

\* insert into migration_runs(job_name, mode) values ($1,$2) returning id
\* (status defaults to 'running', error_message to null)
startRun(rs, jobName, md) ==
    Append(rs, [job_name |-> jobName, mode |-> md, status |-> "running",
                error_message |-> NoMessage])

\* an endRun whose update has no "where id=$1"
endRunEveryRow(rs, id, status, err) ==
    [i \in 1..Len(rs) |-> [rs[i] EXCEPT !.status = status,
                                        !.error_message = err]]

\* update migration_runs set status=$2, error_message=$3 where id=$1
endRun(rs, id, status, err) ==
    [rs EXCEPT ![id] = [@ EXCEPT !.status = status, !.error_message = err]]

\* String(row[job.pk] ?? ""): a column the query does not return is undefined
pkText(job, row) ==
    IF job.pk \in DOMAIN row /\ row[job.pk] # NULL
    THEN JsString(row[job.pk])
    ELSE <<>>

\* an error sink that keeps one entry only, the latest
recordErrorKeepsLatest(errs, rid, job, row, stage, msg) ==
    <<[run_id |-> rid, job_name |-> job.key,
       legacy_id |-> pkText(job, row), stage |-> stage,
       error_message |-> msg, payload |-> row]>>

\* insert into migration_errors(run_id,job_name,legacy_id,stage,error_message,payload)
recordError(errs, rid, job, row, stage, msg) ==
    Append(errs, [run_id |-> rid, job_name |-> job.key,
                  legacy_id |-> pkText(job, row), stage |-> stage,
                  error_message |-> msg, payload |-> row])

(***************************************************************************)
(* The body of runJob's for-loop for one row: the upsert, then the success *)
(* counter or the migration_errors entry.  aborted tells that an exception *)
(* left the row's try/catch, which ends the loop in runJob's outer catch.  *)
(***************************************************************************)
RowResult(u, errs, ins, aborted) ==
    [map |-> u.map, dest |-> u.dest, minted |-> u.minted, res |-> u.res,
     faulted |-> u.faulted, msg |-> u.msg,
     errors |-> errs, inseridos |-> ins, aborted |-> aborted]

\* a loop body without the row's try/catch: a throwing upsert ends the job
rowOutcomeNoCatch(job, row, errs, rid, ins, u) ==
    CASE u.res = "true" -> RowResult(u, errs, ins + 1, FALSE)
      [] u.res = "false" ->
             RowResult(u, recordError(errs, rid, job, row, "validate", Skipped),
                       ins, FALSE)
      [] OTHER -> RowResult(u, errs, ins, TRUE)

\* a loop body that counts a row whose upsert returned false as inserted
rowOutcomeCountsSkips(job, row, errs, rid, ins, u) ==
    CASE u.res = "true" -> RowResult(u, errs, ins + 1, FALSE)
      [] u.res = "false" -> RowResult(u, errs, ins + 1, FALSE)
      [] OTHER ->
             RowResult(u, recordError(errs, rid, job, row, "load", u.msg),
                       ins, FALSE)

\* a loop body that also counts a row whose upsert threw as inserted
rowOutcomeCountsErrors(job, row, errs, rid, ins, u) ==
    CASE u.res = "true" -> RowResult(u, errs, ins + 1, FALSE)
      [] u.res = "false" ->
             RowResult(u, recordError(errs, rid, job, row, "validate", Skipped),
                       ins, FALSE)
      [] OTHER ->
             RowResult(u, recordError(errs, rid, job, row, "load", u.msg),
                       ins + 1, FALSE)

\* what the loop body does with the outcome u of the upsert: if (ok)
\* inseridos++, else a 'validate' entry; catch (e): a 'load' entry
rowOutcome(job, row, errs, rid, ins, u) ==
    CASE u.res = "true" -> RowResult(u, errs, ins + 1, FALSE)
      [] u.res = "false" ->
             RowResult(u, recordError(errs, rid, job, row, "validate", Skipped),
                       ins, FALSE)
      [] OTHER ->
             RowResult(u, recordError(errs, rid, job, row, "load", u.msg),
                       ins, FALSE)

runRow(job, row, s, errs, rid, ins, f) ==
    rowOutcome(job, row, errs, rid, ins, upsert(job, row, s, f))

\* an outer catch that closes the run as a success
extractionFailedAsSuccess(rs, rid, msg) == endRun(rs, rid, "success", NoMessage)

\* runJob's outer catch: endRun(runId, "failed", e.message)
extractionFailed(rs, rid, msg) == endRun(rs, rid, "failed", msg)

\* select id, acronym from state; m.set(String(row.acronym).toUpperCase(), row.id)
\* The select has no order by: of two rows with one acronym either may win.
bootstrapStates(rows) ==
    LET keyOf(r) == toUpperCase(JsString(r.acronym))
        keys == {keyOf(r) : r \in rows}
    IN  { m \in [keys -> {r.id : r \in rows}] :
            \A k \in keys : \E r \in rows : keyOf(r) = k /\ r.id = m[k] }

(***************************************************************************)
(* Source snapshots: the rows each job's extractSql returns.  Primary keys *)
(* are numbers, the second legacy key (a char(36) uuid) is a string or     *)
(* null, references are numbers or strings.                                *)
(***************************************************************************)
StateRow(id, uf) == [id |-> Num(id), acronym |-> Str(uf)]
DimRow(id) == [id |-> Num(id)]
UserRow(seq, uuid, email) ==
    [co_seq_usuario |-> Num(seq), id |-> uuid, email |-> email]
CompanyRow(seq, uuid, user, uf) ==
    [co_seq_empresa |-> Num(seq), id |-> uuid, user_id |-> user, ds_uf |-> Str(uf)]
InstitutionRow(seq, uuid, user, uf) ==
    [co_seq_instituicao |-> Num(seq), id |-> uuid, user_id |-> user,
     ds_uf |-> Str(uf)]
StudentRow(id, user) ==
    [id |-> Num(id), usuario_id |-> user, estado_id |-> Num(1)]
CompanyStaffRow(id, company) == [id |-> Num(id), empresa_id |-> company]
InstitutionStaffRow(id, inst) == [id |-> Num(id), instituicao_id |-> inst]
TermRow(seq, uuid, company, inst) ==
    [co_seq_termo |-> Num(seq), id |-> uuid,
     empresa_id |-> company, supervisor_empresa_id |-> Num(1),
     representante_empresa_id |-> Num(1),
     instituicao_id |-> inst, supervisor_instituicao_id |-> Num(1),
     representante_instituicao_id |-> Num(1), estudante_id |-> Num(1)]
SignedRow(id, term, company) ==
    [id |-> Num(id), termoId |-> term, empresaId |-> company,
     empresa_id |-> NULL, estudanteId |-> Num(1)]

\* user 2 has the e-mail of user 1 but for case and a trailing blank
UserTables ==
    { <<UserRow(1, NULL, Str(<<"x">>)), UserRow(2, NULL, Str(<<"X", " ">>))>>,
      <<UserRow(1, Str(<<"u", "a">>), Str(<<"x">>)), UserRow(2, NULL, NULL)>> }

StudentTables == { <<>>, <<StudentRow(1, Num(1))>> }

\* the tables that vary from one snapshot to the next
Snapshots == [user : UserTables, student : StudentTables]

\* the rows the extractSql of job `k` returns on snapshot `snapshot`; no
\* query reads ctx.mode
sourceRows(snapshot, k) ==
    CASE k = "state" -> <<StateRow(1, <<"S", "P">>), StateRow(2, <<"R", "J">>)>>
      [] k \in DimKeys -> <<DimRow(1)>>
      [] k = "user" -> snapshot.user
      [] k = "company" -> <<CompanyRow(1, NULL, Num(1), <<"s", "p">>)>>
      [] k = "institutions" -> <<InstitutionRow(1, NULL, Num(1), <<"R", "J">>)>>
      [] k = "student" -> snapshot.student
      [] k \in {"company_supervisor", "company_representative"} ->
             <<CompanyStaffRow(1, Num(1))>>
      [] k \in {"institution_supervisor", "institution_representative"} ->
             <<InstitutionStaffRow(1, Num(1))>>
      [] k = "internship_commitment_term" ->
             <<TermRow(1, NULL, Num(1), Num(1))>>
      [] OTHER -> <<SignedRow(1, Num(1), Num(1))>>

(***************************************************************************)
(* Process configuration: --mode / MIGRATION_MODE, --table / MIGRATION_TABLE *)
(***************************************************************************)
Modes == {"full", "incremental"}
NoFilter == ""
Filters == {NoFilter, "company"}
Faults == {"none", "query", "commit"}
\* the jobs whose store calls the model lets fail
FaultJobs == {"state", "company"}

NoStore == [map |-> {}, dest |-> <<>>]
NoRerun == [set |-> FALSE, job |-> "", first |-> NoStore, second |-> NoStore]
NoApi == [op |-> "none", entity |-> "", a |-> NULL, b |-> NULL,
          newId |-> NoId, result |-> NoId, threw |-> FALSE]

\* the process is still running
NoExit == -1

\* a runJob that never honours the filter
filteredOutNever(filter, key) == FALSE

\* runJob: ctx.tableFilter && ctx.tableFilter !== job.key
filteredOut(filter, key) == filter # NoFilter /\ filter # key

\* an exit code that tells whether a run was closed as 'failed'
processExitByRuns(rs) ==
    IF \E i \in 1..Len(rs) : rs[i].status = "failed" THEN 1 ELSE 0

\* main resolves and both pools are ended: the process ends with code 0,
\* whatever migration_runs holds
processExit(rs) == 0

\* a query builder that restricts an incremental run to the rows changed since
\* the last run
extractSqlByMode(job, md) ==
    [from |-> job.sourceTable, changedOnly |-> md = "incremental"]

\* job.extractSql(mode): every builder is () => `select ... from <table>`,
\* with no where clause, and ignores its argument
extractSql(job, md) == [from |-> job.sourceTable, changedOnly |-> FALSE]

\* source.query(sql): all rows of the job's table, or those changed since the
\* last run, of which a snapshot holds none
sourceQuery(snapshot, k, sql) ==
    IF sql.changedOnly THEN <<>> ELSE sourceRows(snapshot, k)

theJob == sortedJobs[jobIdx]

\* rows taken from the end of the result of the query
theRowsReversed == Reverse(sourceQuery(src, theJob.key, extractSql(theJob, mode)))

\* const [rows] = await source.query(job.extractSql(ctx.mode))
theRows == sourceQuery(src, theJob.key, extractSql(theJob, mode))

(***************************************************************************)
(* Spec: the orchestrator.                                                 *)
(***************************************************************************)
Init ==
    /\ map = {}
    /\ nextId = 0
    /\ api = NoApi
    /\ rc = <<>>
    /\ proc = 1
    /\ calls = 0
    /\ src \in Snapshots
    /\ dest = [k \in JobKeys |-> {}]
    /\ runs = <<>>
    /\ errors = <<>>
    /\ pc = "boot"
    /\ configured \in BOOLEAN
    /\ exitCode = NoExit
    /\ checkpoints = {}
    /\ escaped = ""
    /\ mode \in Modes
    /\ tableFilter \in Filters
    /\ stateByUf = <<>>
    /\ jobIdx = 1
    /\ runId = 0
    /\ lidos = 0
    /\ inseridos = 0
    /\ faults = 0
    /\ tally = <<>>
    /\ stable = [k \in JobKeys |-> FALSE]
    /\ consec = FALSE
    /\ atOpen = NoStore
    /\ rerun = NoRerun

apiVars == <<api, rc, calls>>
storeVars == <<map, nextId, dest, runs, errors>>
ctxVars == <<mode, tableFilter, stateByUf>>
loopVars == <<jobIdx, runId, lidos, inseridos>>
histVars == <<tally, stable, consec, atOpen, rerun>>
procVars == <<configured, exitCode, checkpoints, escaped>>

\* main, up to the for-loop: ensureControlTables (the tables exist),
\* bootstrapStates, ctx
Boot ==
    /\ pc = "boot"
    /\ configured
    /\ \E m \in bootstrapStates(dest["state"]) : stateByUf' = m
    /\ jobIdx' = 1
    /\ pc' = "loop"
    /\ UNCHANGED <<storeVars, apiVars, proc, src, mode, tableFilter, runId,
                   lidos, inseridos, faults, histVars, procVars>>

\* if (!sourceUrl || !targetUrl) process.exit(1), before the pools are created
ConfigMissing ==
    /\ pc = "boot"
    /\ ~configured
    /\ exitCode' = 1
    /\ pc' = "done"
    /\ UNCHANGED <<storeVars, apiVars, proc, src, ctxVars, loopVars, faults,
                   histVars, configured, checkpoints, escaped>>

\* ensureControlTables or bootstrapStates rejects: main rejects, and
\* main().catch ends the pools and calls process.exit(1)
BootFails ==
    /\ pc = "boot"
    /\ configured
    /\ faults < MaxFaults
    /\ faults' = faults + 1
    /\ exitCode' = 1
    /\ escaped' = "boot"
    /\ pc' = "done"
    /\ UNCHANGED <<storeVars, apiVars, proc, src, ctxVars, loopVars, histVars,
                   configured, checkpoints>>

\* runJob: if (ctx.tableFilter && ctx.tableFilter !== job.key) return
SkipJob ==
    /\ pc = "loop"
    /\ jobIdx <= Len(sortedJobs)
    /\ filteredOut(tableFilter, theJob.key)
    /\ jobIdx' = jobIdx + 1
    /\ UNCHANGED <<storeVars, apiVars, proc, src, pc, ctxVars, runId, lidos,
                   inseridos, faults, histVars, procVars>>

\* runJob: const runId = await startRun(job.key)
OpenRun ==
    /\ pc = "loop"
    /\ jobIdx <= Len(sortedJobs)
    /\ ~filteredOut(tableFilter, theJob.key)
    /\ runs' = startRun(runs, theJob.key, mode)
    /\ runId' = Len(runs')
    /\ pc' = "extract"
    /\ tally' = Append(tally, [exec |-> proc, job |-> theJob.key,
                               extractFailed |-> FALSE,
                               injected |-> 0, outcomes |-> <<>>])
    /\ consec' = stable[theJob.key]
    /\ atOpen' = [map |-> map, dest |-> dest]
    /\ UNCHANGED <<map, nextId, dest, errors, apiVars, proc, src, ctxVars,
                   jobIdx, lidos, inseridos, faults, stable, rerun, procVars>>

\* startRun rejects: it is called before runJob's try, so runJob and main
\* reject, and main().catch ends the pools and calls process.exit(1)
OpenRunFails ==
    /\ pc = "loop"
    /\ jobIdx <= Len(sortedJobs)
    /\ ~filteredOut(tableFilter, theJob.key)
    /\ faults < MaxFaults
    /\ theJob.key \in FaultJobs
    /\ faults' = faults + 1
    /\ exitCode' = 1
    /\ escaped' = "startRun"
    /\ pc' = "done"
    /\ UNCHANGED <<storeVars, apiVars, proc, src, ctxVars, loopVars, histVars,
                   configured, checkpoints>>

\* runJob: const [rows] = await source.query(job.extractSql(ctx.mode))
ExtractOk ==
    /\ pc = "extract"
    /\ lidos' = 0
    /\ inseridos' = 0
    /\ pc' = "rows"
    /\ UNCHANGED <<storeVars, apiVars, proc, src, ctxVars, jobIdx, runId,
                   faults, histVars, procVars>>

\* the source query throws: the outer catch closes the run, runJob returns
ExtractFails ==
    /\ pc = "extract"
    /\ faults < MaxFaults
    /\ theJob.key \in FaultJobs
    /\ faults' = faults + 1
    /\ runs' = extractionFailed(runs, runId, SourceFailed)
    /\ tally' = [tally EXCEPT ![runId].extractFailed = TRUE,
                              ![runId].injected = @ + 1]
    /\ jobIdx' = jobIdx + 1
    /\ pc' = "loop"
    /\ UNCHANGED <<map, nextId, dest, errors, apiVars, proc, src, ctxVars,
                   runId, lidos, inseridos, stable, consec, atOpen, rerun,
                   procVars>>

\* the effect r of one turn of runJob's for-loop, under the injected failure f
RowStep(f, r) ==
    /\ f # "none" => /\ faults < MaxFaults
                     /\ theJob.key \in FaultJobs
                     /\ r.faulted
    /\ map' = r.map
    /\ dest' = r.dest
    /\ nextId' = r.minted
    /\ errors' = r.errors
    /\ inseridos' = r.inseridos
    /\ faults' = IF r.faulted THEN faults + 1 ELSE faults
    /\ tally' = [tally EXCEPT
                   ![runId].outcomes = Append(@, r.res),
                   ![runId].injected = IF r.faulted THEN @ + 1 ELSE @]
    /\ stable' = IF r.map = map /\ r.dest = dest THEN stable
                 ELSE [k \in JobKeys |-> FALSE]
    /\ IF r.aborted
       THEN /\ runs' = extractionFailed(runs, runId, r.msg)
            /\ jobIdx' = jobIdx + 1
            /\ lidos' = lidos
            /\ pc' = "loop"
       ELSE /\ runs' = runs
            /\ jobIdx' = jobIdx
            /\ lidos' = lidos + 1
            /\ pc' = "rows"

\* one turn of runJob's for-loop
Row ==
    /\ pc = "rows"
    /\ lidos < Len(theRows)
    /\ \E f \in Faults :
         RowStep(f, runRow(theJob, theRows[lidos + 1],
                           [map |-> map, dest |-> dest, minted |-> nextId,
                            stateByUf |-> stateByUf],
                           errors, runId, inseridos, f))
    /\ UNCHANGED <<apiVars, proc, src, ctxVars, runId, consec, atOpen, rerun,
                   procVars>>

\* after the last row: await endRun(runId, "success"); runJob returns
CloseRun ==
    /\ pc = "rows"
    /\ lidos = Len(theRows)
    /\ runs' = endRun(runs, runId, "success", NoMessage)
    /\ jobIdx' = jobIdx + 1
    /\ pc' = "loop"
    /\ LET clean == tally[runId].injected = 0
       IN  /\ stable' = [stable EXCEPT ![theJob.key] = clean]
           /\ rerun' = IF consec /\ clean
                       THEN [set |-> TRUE, job |-> theJob.key, first |-> atOpen,
                             second |-> [map |-> map, dest |-> dest]]
                       ELSE rerun
    /\ UNCHANGED <<map, nextId, dest, errors, apiVars, proc, src, ctxVars,
                   runId, lidos, inseridos, faults, tally, consec, atOpen,
                   procVars>>

\* main after the for-loop: source.end(), target.end(); the process exits 0
Finish ==
    /\ pc = "loop"
    /\ jobIdx > Len(sortedJobs)
    /\ exitCode' = processExit(runs)
    /\ pc' = "done"
    /\ UNCHANGED <<storeVars, apiVars, proc, src, ctxVars, loopVars, faults,
                   histVars, configured, checkpoints, escaped>>

\* the operator starts the process again on the same stores, in the same
\* mode, with or without the single-job filter
Restart ==
    /\ pc = "done"
    /\ proc < MaxExec
    /\ proc' = proc + 1
    /\ tableFilter' \in Filters
    /\ stateByUf' = <<>>
    /\ jobIdx' = 1
    /\ runId' = 0
    /\ lidos' = 0
    /\ inseridos' = 0
    /\ pc' = "boot"
    /\ configured' \in BOOLEAN
    /\ exitCode' = NoExit
    /\ escaped' = ""
    /\ UNCHANGED <<storeVars, apiVars, src, mode, faults, histVars,
                   checkpoints>>

vars == <<map, nextId, api, rc, proc, calls, src, dest, runs, errors, pc, mode,
          tableFilter, stateByUf, jobIdx, runId, lidos, inseridos, faults,
          tally, stable, consec, atOpen, rerun, configured, exitCode,
          checkpoints, escaped>>

Next ==
    \/ Boot
    \/ ConfigMissing
    \/ BootFails
    \/ SkipJob
    \/ OpenRun
    \/ OpenRunFails
    \/ ExtractOk
    \/ ExtractFails
    \/ Row
    \/ CloseRun
    \/ Finish
    \/ Restart

Spec == Init /\ [][Next]_vars

(***************************************************************************)
(* SpecCrash: the orchestrator, with a process that can die in the middle  *)
(* of an upsert, after the destination write and before the identity-map   *)
(* commit.                                                                 *)
(***************************************************************************)
\* the process dies where the upsert with outcome r would have committed:
\* the destination write is kept, nothing else of the row is done
CrashStep(r) ==
    /\ r.faulted
    /\ map' = r.map
    /\ dest' = r.dest
    /\ nextId' = r.minted
    /\ faults' = faults + 1
    /\ tally' = [tally EXCEPT ![runId].outcomes = Append(@, "crash"),
                              ![runId].injected = @ + 1]
    /\ stable' = [k \in JobKeys |-> FALSE]
    /\ escaped' = "crash"
    /\ pc' = "done"

\* the process is killed between await target.query(insert ...) and
\* await mapPut(...) of a row
Crash ==
    /\ pc = "rows"
    /\ lidos < Len(theRows)
    /\ faults < MaxFaults
    /\ theJob.key \in FaultJobs
    /\ CrashStep(upsert(theJob, theRows[lidos + 1],
                        [map |-> map, dest |-> dest, minted |-> nextId,
                         stateByUf |-> stateByUf], "commit"))
    /\ UNCHANGED <<runs, errors, apiVars, proc, src, ctxVars, loopVars, consec,
                   atOpen, rerun, configured, exitCode, checkpoints>>

NextCrash == Next \/ Crash

SpecCrash == Init /\ [][NextCrash]_vars

(***************************************************************************)
(* SpecStore: the orchestrator, with a target store that can reject the    *)
(* control-table statements of runJob as well.  One fault is one outage of *)
(* the target: it covers one statement, the statements of one row, or      *)
(* every statement until the process ends.                                 *)
(***************************************************************************)
\* the row's turn when a migration_errors insert rejects; u is the outcome of
\* the upsert.  If the upsert returned false, the 'validate' insert rejects
\* inside the row's try and the row's catch writes a 'load' entry; otherwise
\* the outage has made the upsert throw and the 'load' insert of the catch
\* rejects: the exception leaves the loop and the outer catch closes the run
RecordFailsStep(u) ==
    /\ u.res # "true"
    /\ map' = u.map
    /\ dest' = u.dest
    /\ nextId' = u.minted
    /\ faults' = faults + 1
    /\ tally' = [tally EXCEPT ![runId].outcomes = Append(@, u.res),
                              ![runId].injected = @ + 1]
    /\ stable' = [k \in JobKeys |-> FALSE]
    /\ IF u.res = "false"
       THEN /\ errors' = recordError(errors, runId, theJob, theRows[lidos + 1],
                                     "load", QueryFailed)
            /\ runs' = runs
            /\ jobIdx' = jobIdx
            /\ lidos' = lidos + 1
            /\ pc' = "rows"
       ELSE /\ errors' = errors
            /\ runs' = extractionFailed(runs, runId, QueryFailed)
            /\ jobIdx' = jobIdx + 1
            /\ lidos' = lidos
            /\ pc' = "loop"

RecordFails ==
    /\ pc = "rows"
    /\ lidos < Len(theRows)
    /\ faults < MaxFaults
    /\ theJob.key \in FaultJobs
    /\ \E f \in {"none", "query"} :
         RecordFailsStep(upsert(theJob, theRows[lidos + 1],
                                [map |-> map, dest |-> dest, minted |-> nextId,
                                 stateByUf |-> stateByUf], f))
    /\ UNCHANGED <<apiVars, proc, src, ctxVars, runId, inseridos, consec,
                   atOpen, rerun, procVars>>

\* endRun(runId, "success") rejects: the outer catch runs
\* endRun(runId, "failed", e.message), which goes through
CloseFails ==
    /\ pc = "rows"
    /\ lidos = Len(theRows)
    /\ faults < MaxFaults
    /\ theJob.key \in FaultJobs
    /\ faults' = faults + 1
    /\ runs' = extractionFailed(runs, runId, QueryFailed)
    /\ tally' = [tally EXCEPT ![runId].injected = @ + 1]
    /\ stable' = [stable EXCEPT ![theJob.key] = FALSE]
    /\ jobIdx' = jobIdx + 1
    /\ pc' = "loop"
    /\ UNCHANGED <<map, nextId, dest, errors, apiVars, proc, src, ctxVars,
                   runId, lidos, inseridos, consec, atOpen, rerun, procVars>>

\* the target is lost while a job is in its loop or at its end: the next
\* statement of the try rejects, so does the migration_errors insert of the
\* row's catch if a row was being handled, and so does the endRun of the outer
\* catch; runJob and main reject, main().catch calls process.exit(1)
TargetLost ==
    /\ pc = "rows"
    /\ faults < MaxFaults
    /\ theJob.key \in FaultJobs
    /\ faults' = faults + 1
    /\ tally' = [tally EXCEPT ![runId].injected = @ + 1]
    /\ stable' = [k \in JobKeys |-> FALSE]
    /\ exitCode' = 1
    /\ escaped' = "endRun"
    /\ pc' = "done"
    /\ UNCHANGED <<storeVars, apiVars, proc, src, ctxVars, loopVars, consec,
                   atOpen, rerun, configured, checkpoints>>

NextStore == Next \/ RecordFails \/ CloseFails \/ TargetLost

SpecStore == Init /\ [][NextStore]_vars

(***************************************************************************)
(* SpecMap: the identity-map functions called with arbitrary arguments, in *)
(* any order, by one process after the other.  Only the persisted map     *)
(* survives a restart.                                                     *)
(***************************************************************************)
Entities == {"user", "company"}

\* the entity that mapPutBoth and the lookups are called for; mapPut and
\* resolve-then-commit fill both namespaces
Looked == {"user"}

\* legacy keys as rows carry them: a number, the same number as text with a
\* leading blank, a uuid, null
LegacyVals ==
    {NULL, Num(7), Str(<<" ", "7">>), Str(<<"u">>)}

\* what mapPut(entity, legacyId: string | number, newId) accepts
LegacyIds == LegacyVals \ {NULL}

\* the ids a caller can hold: those newId() has handed out, or one more
HeldIds == 1..(IF nextId < MaxIds THEN nextId + 1 ELSE nextId)

ApiCall(op, entity, a, b, newId, result, threw) ==
    [op |-> op, entity |-> entity, a |-> a, b |-> b, newId |-> newId,
     result |-> result, threw |-> threw]

\* no job is running: the orchestrator's variables but the destination tables
controlIdle ==
    /\ src = CHOOSE sn \in Snapshots : TRUE
    /\ runs = <<>>
    /\ errors = <<>>
    /\ pc = "api"
    /\ mode = "full"
    /\ tableFilter = NoFilter
    /\ stateByUf = <<>>
    /\ jobIdx = 1
    /\ runId = 0
    /\ lidos = 0
    /\ inseridos = 0
    /\ faults = 0
    /\ tally = <<>>
    /\ stable = [k \in JobKeys |-> FALSE]
    /\ consec = FALSE
    /\ atOpen = NoStore
    /\ rerun = NoRerun
    /\ configured = TRUE
    /\ exitCode = NoExit
    /\ checkpoints = {}
    /\ escaped = ""

orchestratorIdle ==
    /\ dest = [k \in JobKeys |-> {}]
    /\ controlIdle

orchestratorVars ==
    <<src, dest, runs, errors, pc, ctxVars, loopVars, faults, histVars,
      procVars>>

InitMap ==
    /\ map = {}
    /\ nextId = 0
    /\ api = NoApi
    /\ rc = <<>>
    /\ proc = 1
    /\ calls = 0
    /\ orchestratorIdle

\* what resolve-then-commit does with the resolved id r: mapPut(E, L, r.id)
Committed(entity, legacyId, r, put) ==
    /\ map' = put.map
    /\ nextId' = r.minted
    /\ api' = ApiCall("resolveCommit", entity, legacyId, NULL, r.id, r.id,
                      put.threw)
    /\ rc' = IF rc # <<>> /\ rc[Len(rc)].entity = entity
                          /\ rc[Len(rc)].legacy = legacyId
             THEN <<rc[Len(rc)],
                    [entity |-> entity, legacy |-> legacyId, id |-> r.id,
                     proc |-> proc]>>
             ELSE <<[entity |-> entity, legacy |-> legacyId, id |-> r.id,
                     proc |-> proc]>>

ResolveThenCommit(entity, legacyId, r) ==
    Committed(entity, legacyId, r, mapPut(map, entity, legacyId, r.id))

\* const id = await resolveId(E, L); await mapPut(E, L, id)
ApiResolveCommit ==
    /\ pc = "api" /\ calls < MaxCalls /\ nextId < MaxIds
    /\ \E entity \in Entities, legacyId \in LegacyIds :
         ResolveThenCommit(entity, legacyId,
                           resolveId(map, entity, legacyId, nextId))
    /\ calls' = calls + 1
    /\ UNCHANGED <<proc, orchestratorVars>>

Put(entity, a, b, newId, op, put) ==
    /\ map' = put.map
    /\ nextId' = IF newId > nextId THEN newId ELSE nextId
    /\ api' = ApiCall(op, entity, a, b, newId, NoId, put.threw)
    /\ rc' = <<>>

\* await mapPut(E, L, N) with an id N the caller holds
ApiMapPut ==
    /\ pc = "api" /\ calls < MaxCalls
    /\ \E entity \in Entities, legacyId \in LegacyIds, newId \in HeldIds :
         Put(entity, legacyId, NULL, newId, "mapPut",
             mapPut(map, entity, legacyId, newId))
    /\ calls' = calls + 1
    /\ UNCHANGED <<proc, orchestratorVars>>

\* await mapPutBoth(E, a, b, N) with an id N the caller holds
ApiMapPutBoth ==
    /\ pc = "api" /\ calls < MaxCalls
    /\ \E entity \in Looked, a \in LegacyVals, b \in LegacyVals,
          newId \in HeldIds :
         Put(entity, a, b, newId, "mapPutBoth",
             mapPutBoth(map, entity, a, b, newId))
    /\ calls' = calls + 1
    /\ UNCHANGED <<proc, orchestratorVars>>

\* a lookup that persists what it returns under the key it was asked for
LookupPersists(op, entity, a, b, result, minted) ==
    /\ map' = IF a # NULL /\ result # NoId
              THEN mapPut(map, entity, a, result).map
              ELSE map
    /\ nextId' = minted
    /\ api' = ApiCall(op, entity, a, b, NoId, result, FALSE)

\* what a lookup that returned `result` has done: a select changes no table;
\* `minted` counts the ids newId() has handed out
Lookup(op, entity, a, b, result, minted) ==
    /\ map' = map
    /\ nextId' = minted
    /\ api' = ApiCall(op, entity, a, b, NoId, result, FALSE)

\* await mapGet(E, L)
ApiMapGet ==
    /\ pc = "api" /\ calls < MaxCalls
    /\ \E entity \in Looked, legacyId \in LegacyVals :
         Lookup("mapGet", entity, legacyId, NULL,
                mapGet(map, entity, legacyId), nextId)
    /\ calls' = calls + 1
    /\ UNCHANGED <<rc, proc, orchestratorVars>>

Resolved(entity, legacyId, r) ==
    Lookup("resolveId", entity, legacyId, NULL, r.id, r.minted)

\* await resolveId(E, L), the result dropped
ApiResolveId ==
    /\ pc = "api" /\ calls < MaxCalls /\ nextId < MaxIds
    /\ \E entity \in Looked, legacyId \in LegacyVals :
         Resolved(entity, legacyId, resolveId(map, entity, legacyId, nextId))
    /\ calls' = calls + 1
    /\ UNCHANGED <<rc, proc, orchestratorVars>>

\* await mapGetAny(E, a, b)
ApiMapGetAny ==
    /\ pc = "api" /\ calls < MaxCalls
    /\ \E entity \in Looked, a \in LegacyVals, b \in LegacyVals :
         Lookup("mapGetAny", entity, a, b, mapGetAny(map, entity, <<a, b>>),
                nextId)
    /\ calls' = calls + 1
    /\ UNCHANGED <<rc, proc, orchestratorVars>>

\* the process ends and another one starts on the same target store
ApiRestart ==
    /\ pc = "api" /\ proc < MaxExec
    /\ proc' = proc + 1
    /\ api' = NoApi
    /\ UNCHANGED <<map, nextId, rc, calls, orchestratorVars>>

NextMap ==
    \/ ApiResolveCommit
    \/ ApiMapPut
    \/ ApiMapPutBoth
    \/ ApiMapGet
    \/ ApiResolveId
    \/ ApiMapGetAny
    \/ ApiRestart

SpecMap == InitMap /\ [][NextMap]_vars

(***************************************************************************)
(* SpecSigned: the upsert of the signed_internship_commitment_term job,    *)
(* called for arbitrary rows of `termos` on the identity map the earlier   *)
(* tiers leave: company 1 and student 1 mapped, and any of the terms 1 and *)
(* 2 mapped under its co_seq_termo.                                        *)
(***************************************************************************)
SignedEntity == "signed_internship_commitment_term"
TermEntity == "internship_commitment_term"

\* ids 1 and 2 belong to company 1 and student 1, 3 and 4 to the terms
SignedBase == {MapRow("company", <<"1">>, 1), MapRow("student", <<"1">>, 2)}
TermMaps == SUBSET {MapRow(TermEntity, <<"1">>, 3), MapRow(TermEntity, <<"2">>, 4)}

\* the rows of `termos`: the row's own id and the term it references
SignedRows ==
    {SignedRow(id, term, Num(1)) : id \in {1, 2}, term \in {NULL, Num(1), Num(2)}}

\* one destination row, reduced to its id, for each mapping
destOf(m) == [k \in JobKeys |-> {[id |-> r.new_id] : r \in {x \in m : x.entity = k}}]

InitSigned ==
    /\ map \in {SignedBase \cup t : t \in TermMaps}
    /\ dest = destOf(map)
    /\ nextId = 4
    /\ api = NoApi
    /\ rc = <<>>
    /\ proc = 1
    /\ calls = 0
    /\ controlIdle

\* the term the destination row of the signed row is linked to, if written
linkedTerm(u, id) ==
    IF u.res = "true"
    THEN (CHOOSE d \in u.dest[SignedEntity] : d.id = id)
             .internship_commitment_term_id
    ELSE NoId

\* what the upsert of `row` has done: u is its outcome, id the row's own
\* canonical id
SignedDone(row, id, u) ==
    /\ map' = u.map
    /\ dest' = u.dest
    /\ nextId' = u.minted
    /\ api' = ApiCall("signedUpsert", SignedEntity, row.id, row.termoId, id,
                      linkedTerm(u, id), u.res = "throw")

\* await job.upsert(row, ctx) of the signed_internship_commitment_term job
ApiSignedUpsert ==
    /\ pc = "api" /\ calls < MaxCalls
    /\ \E row \in SignedRows :
         SignedDone(row, resolveId(map, SignedEntity, row.id, nextId).id,
                    upsertSignedTerm(row, [map |-> map, dest |-> dest,
                                           minted |-> nextId,
                                           stateByUf |-> stateByUf], "none"))
    /\ calls' = calls + 1
    /\ UNCHANGED <<rc, proc, src, runs, errors, pc, ctxVars, loopVars, faults,
                   histVars, procVars>>

NextSigned == ApiSignedUpsert

SpecSigned == InitSigned /\ [][NextSigned]_vars

(***************************************************************************)
(* Properties of the orchestrator (Spec).                                  *)
(***************************************************************************)
rowsOfRun(i) == sourceRows(src, runs[i].job_name)

positionOf(key) == CHOOSE k \in 1..Len(sortedJobs) : sortedJobs[k].key = key

allowedByFilter(key) == tableFilter = NoFilter \/ tableFilter = key

\* C1: when main opens the run of a job B, every run opened before it in this
\* execution is closed and belongs to a job whose level is not above B's: for
\* jobs A and B with level(A) < level(B) that both run, the run of A is closed
\* before the run of B is opened, and never opened after it.
LevelOrder ==
    [][ Len(runs') = Len(runs) + 1
        => \A i \in 1..Len(runs) :
               tally[i].exec = proc
               => /\ runs[i].status # "running"
                  /\ levelOfKey(runs[i].job_name)
                         <= levelOfKey(runs'[Len(runs')].job_name) ]_vars

\* a tier-5 job is running in an execution in which tier-1 jobs have run
LevelOrderWitness ==
    \E i, j \in 1..Len(runs) :
        /\ tally[i].exec = tally[j].exec
        /\ levelOfKey(runs[i].job_name) = 1
        /\ levelOfKey(runs[j].job_name) = 5
        /\ runs[j].status = "running"

NewIdNeverChanges ==
    [][ \A r \in map :
          /\ r \in map'
          /\ \A q \in map' :
                 (q.entity = r.entity /\ q.legacy_id = r.legacy_id)
                 => q.new_id = r.new_id ]_vars

\* a second execution has upserted a user row that the first one had mapped
NewIdNeverChangesWitness ==
    \E i, j \in 1..Len(runs) :
        /\ runs[i].job_name = "user" /\ runs[j].job_name = "user"
        /\ tally[i].exec = 1 /\ tally[j].exec = 2
        /\ Len(tally[i].outcomes) = 2 /\ tally[i].outcomes[2] = "true"
        /\ Len(tally[j].outcomes) = 2 /\ tally[j].outcomes[2] = "true"

\* C7: a migration_runs row is created with status 'running'; a step changes
\* a row only if the row is 'running', and then to 'success' or 'failed'; a
\* row that is 'success' or 'failed' is never changed again.
RunLifecycle ==
    [][ /\ Len(runs') >= Len(runs)
        /\ \A i \in 1..Len(runs) :
               \/ runs'[i] = runs[i]
               \/ /\ runs[i].status = "running"
                  /\ runs'[i].status \in {"success", "failed"}
        /\ \A i \in (Len(runs) + 1)..Len(runs') :
               runs'[i].status = "running" ]_vars

\* a failed run and a successful run are closed while a later run is open
RunLifecycleWitness ==
    \E i, j, k \in 1..Len(runs) :
        /\ i < k /\ j < k
        /\ runs[i].status = "failed"
        /\ runs[j].status = "success"
        /\ runs[k].status = "running"

\* the migration_errors entries of run i for the source row `row`
errorsOfRow(i, row) ==
    {e \in 1..Len(errors) : errors[e].run_id = i /\ errors[e].payload = row}

unresolvedReference(key, row) ==
    CASE key \in {"company", "institutions"} ->
             mapGet(map, "user", row.user_id) = NoId
      [] key = "student" -> mapGet(map, "user", row.usuario_id) = NoId
      [] key \in {"company_supervisor", "company_representative"} ->
             mapGet(map, "company", row.empresa_id) = NoId
      [] key \in {"institution_supervisor", "institution_representative"} ->
             mapGet(map, "institutions", row.instituicao_id) = NoId
      [] OTHER -> FALSE

ExtractionFailure ==
    \A i \in 1..Len(runs) :
        tally[i].extractFailed
        => /\ runs[i].status = "failed"
           /\ runs[i].error_message = SourceFailed
           /\ tally[i].outcomes = <<>>
           /\ \A e \in 1..Len(errors) : errors[e].run_id # i
           /\ tally[i].exec = proc
              => \A k \in (positionOf(runs[i].job_name) + 1)..(jobIdx - 1) :
                     allowedByFilter(sortedJobs[k].key)
                     => \E j \in (i + 1)..Len(runs) :
                            /\ tally[j].exec = proc
                            /\ runs[j].job_name = sortedJobs[k].key

\* the source query of the state job threw and main has run every other job
ExtractionFailureWitness ==
    /\ pc = "done"
    /\ \E i, j \in 1..Len(runs) :
           /\ tally[i].extractFailed
           /\ runs[i].job_name = "state"
           /\ tally[i].exec = proc /\ tally[j].exec = proc
           /\ runs[j].job_name = "signed_internship_commitment_term"
           /\ runs[j].status = "success"

\* C2: when a job has run twice in a row on one source snapshot, with no
\* store failure and no change of the target in between, the identity map
\* after the second run is the one after the first run and every destination
\* table has as many rows as after the first run.
RerunStability ==
    rerun.set
    => /\ rerun.second.map = rerun.first.map
       /\ \A k \in JobKeys :
              Cardinality(rerun.second.dest[k]) = Cardinality(rerun.first.dest[k])


\* the runs of the running process execution for the job `key`
runsOfJob(key) ==
    {i \in 1..Len(tally) : tally[i].exec = proc /\ runs[i].job_name = key}

\* C11: when a configured process has ended after main reached its loop,
\* every job of the sorted registry that the filter allows was started in
\* this execution: no failure raised while a job is being run ends main.
FailureContainment ==
    (pc = "done" /\ configured /\ escaped # "boot")
    => \A k \in 1..Len(sortedJobs) :
           allowedByFilter(sortedJobs[k].key)
           => runsOfJob(sortedJobs[k].key) # {}

\* the canonical ids committed for the legacy id `legacy` of `entity`
committedIds(entity, legacy) ==
    IF legacy = NULL THEN {}
    ELSE {r.new_id : r \in {q \in map : /\ q.entity = entity
                                        /\ q.legacy_id = JsString(legacy)}}

\* the rows that the step writes to the destination table of job `key`
rowsWritten(key) == dest'[key] \ dest[key]

JobFilter ==
    [][ ( /\ pc = "loop"
          /\ jobIdx <= Len(sortedJobs)
          /\ tableFilter # NoFilter
          /\ tableFilter # theJob.key )
        => /\ runs' = runs
           /\ map' = map
           /\ dest' = dest
           /\ errors' = errors
           /\ nextId' = nextId
           /\ tally' = tally
           /\ pc' = "loop"
           /\ jobIdx' = jobIdx + 1 ]_vars

\* a filtered execution has ended on a target that an unfiltered one had
\* filled: the company job ran, the state job was skipped
JobFilterWitness ==
    /\ pc = "done"
    /\ exitCode = 0
    /\ proc = 2
    /\ tableFilter = "company"
    /\ runsOfJob("company") # {}
    /\ runsOfJob("state") = {}
    /\ dest["state"] # {}

\* C17: every job whose rows the orchestrator has processed (its run is
\* closed as 'success') has a migration_checkpoints entry.
CheckpointWritten ==
    \A i \in 1..Len(runs) :
        runs[i].status = "success"
        => \E c \in checkpoints : c.job_name = runs[i].job_name

\* C18: a step leaves migration_errors as it is or appends exactly one
\* entry to it, whose payload is the source row that the loop is at and
\* whose upsert has thrown or returned false; no entry is changed or removed.
ErrorLogAppendOnly ==
    [][ \/ errors' = errors
        \/ /\ Len(errors') = Len(errors) + 1
           /\ SubSeq(errors', 1, Len(errors)) = errors
           /\ pc = "rows"
           /\ lidos < Len(theRows)
           /\ errors'[Len(errors')].payload = theRows[lidos + 1]
           /\ tally'[runId].outcomes[lidos + 1] \in {"throw", "false"} ]_vars

\* the log holds a 'load' entry followed by a 'validate' entry
ErrorLogAppendOnlyWitness ==
    \E e, g \in 1..Len(errors) :
        /\ e < g
        /\ errors[e].stage = "load"
        /\ errors[g].stage = "validate"

\* C19: every job invocation that passes the filter has added exactly one
\* migration_runs row, with the job's key as job_name, whether the job
\* extracts no row, one row or two: the runs of the running execution are as
\* many as the jobs main has started so far (those the filter allows among the
\* positions it has reached), and each of those jobs has a run among them.
OneRunPerInvocation ==
    LET reached == IF pc \in {"extract", "rows"} THEN jobIdx ELSE jobIdx - 1
        started == {k \in 1..reached : allowedByFilter(sortedJobs[k].key)}
        current == {i \in 1..Len(tally) : tally[i].exec = proc}
    IN  /\ Len(runs) = Len(tally)
        /\ Cardinality(current) = Cardinality(started)
        /\ \A k \in started :
               \E i \in current : runs[i].job_name = sortedJobs[k].key

\* a second unfiltered execution has ended; the student job extracted no row
OneRunPerInvocationWitness ==
    /\ pc = "done"
    /\ exitCode = 0
    /\ proc = 2
    /\ tableFilter = NoFilter
    /\ src.student = <<>>
    /\ Len(runs) = 2 * Len(sortedJobs)

\* C20: when the process has ended, its exit code is 0 if the configuration
\* was present and no exception escaped main, even if runs were closed as
\* 'failed'; the exit code is not 0 only if the configuration was missing,
\* and then this execution opened no run, or if an exception escaped main.
ProcessOutcome ==
    pc = "done"
    => /\ (configured /\ escaped = "") => exitCode = 0
       /\ exitCode # 0
          => \/ ~configured /\ \A i \in 1..Len(tally) : tally[i].exec # proc
             \/ escaped # ""

\* the process has exited with code 0 although one of its runs is 'failed'
ProcessOutcomeWitness ==
    /\ pc = "done"
    /\ exitCode = 0
    /\ \E i \in 1..Len(runs) : tally[i].exec = proc /\ runs[i].status = "failed"

(***************************************************************************)
(* Further properties of the orchestrator (Spec).                          *)
(***************************************************************************)
\* C21: a step opens a run only when no run of this execution is 'running',
\* and opens one run; a step handles at most one row, the row that follows the
\* rows already handled in the order of the query result, for the one run
\* that is 'running', and its migration_errors entry, if any, is written in
\* that same step, before the next row is taken.
SequentialExecution ==
    [][ /\ Len(runs') > Len(runs)
           => /\ Len(runs') = Len(runs) + 1
              /\ \A i \in 1..Len(runs) :
                     tally[i].exec = proc => runs[i].status # "running"
        /\ \A i \in 1..Len(tally) :
               tally'[i].outcomes # tally[i].outcomes
               => /\ i = Len(runs)
                  /\ runs[i].status = "running"
                  /\ tally[i].exec = proc
                  /\ Len(tally[i].outcomes) < Len(rowsOfRun(i))
                  /\ SubSeq(tally'[i].outcomes, 1, Len(tally[i].outcomes))
                       = tally[i].outcomes
                  /\ Len(tally'[i].outcomes) = Len(tally[i].outcomes) + 1
                  /\ \/ errors' = errors
                     \/ /\ Len(errors') = Len(errors) + 1
                        /\ errors'[Len(errors')].run_id = i
                        /\ errors'[Len(errors')].payload
                             = rowsOfRun(i)[Len(tally[i].outcomes) + 1]
      ]_vars

\* the first of two rows has been handled, with its error entry as the last
\* entry of migration_errors, and the second row has not been taken yet
SequentialExecutionWitness ==
    /\ pc = "rows"
    /\ lidos = 1
    /\ Len(theRows) = 2
    /\ runs[runId].status = "running"
    /\ tally[runId].outcomes = <<"throw">>
    /\ errors # <<>>
    /\ errors[Len(errors)].run_id = runId
    /\ errors[Len(errors)].payload = theRows[1]

\* the migration_errors entries of run i
errorsOfRun(i) == {e \in 1..Len(errors) : errors[e].run_id = i}

\* C23: when a run is closed as 'success', every extracted row has been
\* counted as read once (lidos is the number of rows), rows read = rows
\* counted as inserted + migration_errors entries of the run, the rows
\* counted as inserted are those whose upsert returned true, and a row has a
\* migration_errors entry (one, of stage 'validate' or 'load') exactly when
\* its upsert did not return true.
RowAccounting ==
    [][ \A i \in 1..Len(runs) :
            (runs[i].status = "running" /\ runs'[i].status = "success")
            => /\ lidos = Len(rowsOfRun(i))
               /\ Len(tally[i].outcomes) = lidos
               /\ lidos = inseridos + Cardinality(errorsOfRun(i))
               /\ inseridos
                    = Cardinality({k \in 1..lidos : tally[i].outcomes[k] = "true"})
               /\ \A k \in 1..lidos :
                      /\ Cardinality(errorsOfRow(i, rowsOfRun(i)[k]))
                           = IF tally[i].outcomes[k] = "true" THEN 0 ELSE 1
                      /\ \A e \in errorsOfRow(i, rowsOfRun(i)[k]) :
                             errors[e].stage
                               = IF tally[i].outcomes[k] = "false"
                                 THEN "validate" ELSE "load"
      ]_vars

\* a run of two rows is closed as 'success': one row was counted as inserted
\* and the other has an error entry
RowAccountingWitness ==
    /\ pc = "loop"
    /\ runId > 0
    /\ runs[runId].status = "success"
    /\ lidos = 2
    /\ inseridos = 1
    /\ Cardinality(errorsOfRun(runId)) = 1

\* C24: in the first execution, which starts with an empty destination
\* 'state' table, a company or institutions row whose user is mapped and
\* whose UF is the acronym of a state the tier-1 state job has written in
\* this execution is not skipped.
StateLookupFollowsTierOne ==
    proc = 1
    => \A i \in 1..Len(tally) :
           ( /\ tally[i].job \in {"company", "institutions"}
             /\ tally[i].outcomes # <<>>
             /\ mapGet(map, "user", rowsOfRun(i)[1].user_id) # NoId
             /\ \E d \in dest["state"] :
                    toUpperCase(JsString(d.acronym))
                      = UfKey(rowsOfRun(i)[1].ds_uf) )
           => tally[i].outcomes[1] # "false"

\* the rows the query of the running job returns when built for mode md
rowsInMode(md) == sourceQuery(src, theJob.key, extractSql(theJob, md))

NoDanglingMapping ==
    \A r \in map : \E d \in dest[r.entity] : d.id = r.new_id

(***************************************************************************)
(* Properties of the identity-map functions (SpecMap).                     *)
(***************************************************************************)
\* C3: when resolveId(E, L) followed by mapPut(E, L, result) has been done
\* twice in a row for one entity E and one legacy id L, by one process or by
\* two, both resolveId calls returned the same canonical id.
IdempotentResolution ==
    Len(rc) = 2 => rc[2].id = rc[1].id

\* the two resolve-then-commit calls were made by two processes
IdempotentResolutionWitness ==
    /\ Len(rc) = 2
    /\ rc[1].proc # rc[2].proc
    /\ rc[2].id = nextId

\* a legacy key that String(v).trim() leaves as it is, and that is not empty
ownNormalForm(v) ==
    /\ v # NULL
    /\ JsString(v) # <<>>
    /\ Trim(JsString(v)) = JsString(v)

\* C5: after mapPutBoth(E, a, b, N) with two distinct non-empty legacy keys a
\* and b, mapGet(E, a), mapGet(E, b), mapGetAny(E, a, b) and
\* mapGetAny(E, null, b) all return N.
DualKeyUnion ==
    ( /\ api.op = "mapPutBoth"
      /\ ownNormalForm(api.a)
      /\ ownNormalForm(api.b)
      /\ JsString(api.a) # JsString(api.b) )
    => /\ mapGet(map, api.entity, api.a) = api.newId
       /\ mapGet(map, api.entity, api.b) = api.newId
       /\ mapGetAny(map, api.entity, <<api.a, api.b>>) = api.newId
       /\ mapGetAny(map, api.entity, <<NULL, api.b>>) = api.newId

\* the text under which a candidate is looked up: String(v).trim()
lookupKey(v) == Trim(JsString(v))

\* the candidate is non-null and non-empty after trimming
presentKey(v) == v # NULL /\ lookupKey(v) # <<>>

\* the ids migration_map holds for entity under the text `legacy`
idsHeld(m, entity, legacy) ==
    {r.new_id : r \in {x \in m : x.entity = entity /\ x.legacy_id = legacy}}

\* C14: mapGet, mapGetAny and resolveId leave the identity map unchanged for
\* every input; mapGet returns null when (entity, legacyId) is unmapped;
\* resolveId on an unmapped key returns a freshly minted id, which no mapping
\* holds after the call.
LookupsPure ==
    [][ (calls' = calls + 1 /\ api'.op \in {"mapGet", "mapGetAny", "resolveId"})
        => LET unmapped == \/ api'.a = NULL
                           \/ idsHeld(map, api'.entity, JsString(api'.a)) = {}
           IN  /\ map' = map
               /\ (api'.op = "mapGet" /\ unmapped) => api'.result = NoId
               /\ (api'.op = "resolveId" /\ unmapped)
                  => /\ api'.result = nextId + 1
                     /\ nextId' = nextId + 1
                     /\ \A r \in map \cup map' : r.new_id # api'.result ]_vars

\* resolveId on an unmapped key of a non-empty map has returned an id that no
\* mapping holds
LookupsPureWitness ==
    /\ api.op = "resolveId"
    /\ api.a # NULL
    /\ map # {}
    /\ idsHeld(map, api.entity, JsString(api.a)) = {}
    /\ api.result = nextId
    /\ \A r \in map : r.new_id # api.result

\* C15: mapGetAny(entity, c1, c2) returns the new_id mapped to the first
\* candidate, in argument order, that is non-null, non-empty after trimming
\* and whose trimmed text is a key of the identity map for that entity; it
\* returns null when no candidate is mapped.
FirstMappedCandidate ==
    api.op = "mapGetAny"
    => LET cands == <<api.a, api.b>>
           mapped == {i \in 1..2 :
                        /\ presentKey(cands[i])
                        /\ idsHeld(map, api.entity, lookupKey(cands[i])) # {}}
       IN  IF mapped = {}
           THEN api.result = NoId
           ELSE LET first == CHOOSE i \in mapped : \A j \in mapped : i <= j
                IN  idsHeld(map, api.entity, lookupKey(cands[first]))
                      = {api.result}

\* both candidates are mapped, to different ids, and the first one's id came
\* back
FirstMappedCandidateWitness ==
    /\ api.op = "mapGetAny"
    /\ presentKey(api.a) /\ presentKey(api.b)
    /\ idsHeld(map, api.entity, lookupKey(api.a)) = {api.result}
    /\ idsHeld(map, api.entity, lookupKey(api.b)) # {}
    /\ idsHeld(map, api.entity, lookupKey(api.b)) # {api.result}

\* the trimmed texts of those of a and b that are present
presentKeys(a, b) ==
    {lookupKey(v) : v \in {x \in {a, b} : presentKey(x)}}

\* C16: mapPutBoth(entity, a, b, newId), called with an id that no other
\* legacy key of the entity holds, leaves one mapping to newId for each of a
\* and b that is present (two when they normalize to different strings, one
\* when they normalize to the same string or only one is present, none when
\* both are absent) and no other mapping is written or changed.
PairRegistration ==
    [][ ( /\ calls' = calls + 1
          /\ api'.op = "mapPutBoth"
          /\ \A r \in map :
               (r.entity = api'.entity /\ r.new_id = api'.newId)
               => r.legacy_id \in presentKeys(api'.a, api'.b) )
        => LET keys == presentKeys(api'.a, api'.b)
           IN  map' = {r \in map : ~(r.entity = api'.entity
                                     /\ r.legacy_id \in keys)}
                      \cup {MapRow(api'.entity, k, api'.newId) : k \in keys}
      ]_vars

(***************************************************************************)
(* Properties of the signed-term upsert (SpecSigned).                      *)
(***************************************************************************)
\* C27: when the signed-term upsert has written the row of a `termos` row
\* whose termoId is mapped in the 'internship_commitment_term' namespace, the
\* term it is linked to is the canonical id mapped to termoId, whatever the
\* row's own id.
SignedTermLink ==
    ( /\ api.op = "signedUpsert"
      /\ presentKey(api.b)
      /\ idsHeld(map, TermEntity, lookupKey(api.b)) # {}
      /\ api.result # NoId )
    => idsHeld(map, TermEntity, lookupKey(api.b)) = {api.result}

(***************************************************************************)
(* Properties of the orchestrator with crashes (SpecCrash).                *)
(***************************************************************************)
\* an earlier run of the running job crashed on the row at position k
crashedBefore(k) ==
    \E j \in 1..(runId - 1) :
        /\ tally[j].job = theJob.key
        /\ Len(tally[j].outcomes) = k
        /\ tally[j].outcomes[k] = "crash"

RunsReachTerminalStatus ==
    \A i \in 1..Len(runs) :
        runs[i].status = "running"
        => /\ i = runId
           /\ tally[i].exec = proc
           /\ pc \in {"extract", "rows"}

====
